---- MODULE Spec2Model ----
(***************************************************************************)
(* Model of the Python kernel of the Action Control Protocol (kernel-py).  *)
(*                                                                         *)
(*   acp/types.py   ERROR_CODES                                            *)
(*   acp/usage.py   UsageResponse, UpgradeRequiredError,                   *)
(*                  enforce_usage_limit                                    *)
(*   acp/router.py  create_manage_router                                   *)
(*                                                                         *)
(* Two specifications share the variables.  Spec drives the usage          *)
(* governor: a control plane builds UsageResponse records and              *)
(* enforce_usage_limit is called on them.  RouterSpec drives the router    *)
(* entry point: callers hand (request, meta) pairs to the function that    *)
(* create_manage_router is declared to return.                             *)
(***************************************************************************)
EXTENDS Integers, Sequences, FiniteSets

VARIABLES
    \* the arguments of the enforce_usage_limit call
    tenant_uuid, control_plane, free_tier_limit, warning_threshold,
    \* how the enforce_usage_limit call ended:
    \* [how |-> "pending"], [how |-> "return", value |-> ..] or [how |-> "raise", ..]
    result,
    \* TRUE once the call has printed its "[USAGE] Usage check failed" line
    printed,
    \* the (request, meta) pair each caller hands to the kernel's entry point
    requests,
    \* the answer the rate-limit and the ceilings adapter have for each request
    rate_limit_adapter, ceilings_adapter,
    \* where each caller is: "idle", "calling" or "done"
    pc,
    \* how each caller's call ended (as result above)
    outcome,
    \* per request, the calls of the audit adapter's write and of the action handler
    audit_writes, dispatched

usage_vars ==
    << tenant_uuid, control_plane, free_tier_limit, warning_threshold, result, printed >>

router_vars ==
    << requests, rate_limit_adapter, ceilings_adapter, pc, outcome, audit_writes,
       dispatched >>

vars == << usage_vars, router_vars >>

(***************************************************************************)
(* Bounds of the model.                                                    *)
(***************************************************************************)
\* call counts 0 .. MaxCalls are explored next to the values around the defaults
MaxCalls == 3
\* how far above the default free tier limit call counts are explored
MaxOver == 1
\* number of callers that hand a request to the router concurrently
MaxCallers == 2

(***************************************************************************)
(* Program constants.                                                      *)
(***************************************************************************)
\* usage.py:59   free_tier_limit: int = 100
DefaultFreeTierLimit == 100
\* usage.py:60   warning_threshold: int = 90
DefaultWarningThreshold == 90

\* types.py:59-68
ERROR_CODES ==
    << "VALIDATION_ERROR",
       "INVALID_API_KEY",
       "SCOPE_DENIED",
       "NOT_FOUND",
       "RATE_LIMITED",
       "CEILING_EXCEEDED",
       "IDEMPOTENT_REPLAY",
       "INTERNAL_ERROR" >>

(***************************************************************************)
(* Python values.  An attribute that is meant to hold an integer can hold  *)
(* None as well (a dataclass does not check its field types), so the call  *)
(* counts are tagged values and the comparisons below fail on a None as    *)
(* Python's do.                                                            *)
(***************************************************************************)
None == [py |-> "None"]
PyInt(n) == [py |-> "int", v |-> n]
IsInt(x) == x.py = "int"

Max(a, b) == IF a >= b THEN a ELSE b

\* bool(x) of a str: the empty string is falsy
TruthyStr(s) == s # ""

\* the exception classes a get_usage call is taken to end with: the module's own
\* UpgradeRequiredError, subclasses of Exception, and a BaseException that is
\* no Exception
ExceptionClasses == { "UpgradeRequiredError", "ConnectionError", "KeyboardInterrupt" }

\* isinstance(e, Exception)
IsException(cls) ==
    cls \in { "UpgradeRequiredError", "ConnectionError", "AttributeError", "TypeError" }

(***************************************************************************)
(* usage.py: UsageResponse                                                 *)
(***************************************************************************)
\* the call counts a usage ledger reports in this model
CallCounts ==
    (0 .. MaxCalls)
        \cup { DefaultWarningThreshold - 1, DefaultWarningThreshold,
               DefaultWarningThreshold + 5,
               DefaultFreeTierLimit - 1 }
        \cup (DefaultFreeTierLimit .. DefaultFreeTierLimit + MaxOver)

\* the values a caller passes for calls_remaining; None is the default
RemainingArgs == { None, PyInt(-1), PyInt(0), PyInt(5) }

\* PostInit with a slip: the derived value is not clamped at 0
PostInit_Unclamped(calls_used, calls_limit, calls_remaining) ==
    IF calls_remaining = None
    THEN PyInt(calls_limit.v - calls_used.v)
    ELSE calls_remaining

\* usage.py:40-42  __post_init__: the stored value of calls_remaining
PostInit(calls_used, calls_limit, calls_remaining) ==
    IF calls_remaining = None
    THEN PyInt(Max(0, calls_limit.v - calls_used.v))
    ELSE calls_remaining

\* usage.py:29-42  the dataclass constructor followed by __post_init__
\* (tenant_id, period_start and period_end are stored and never read);
\* given marks a record built with an explicit calls_remaining argument
UsageResponse(tier, calls_used, calls_limit, calls_remaining) ==
    [ class |-> "UsageResponse",
      tier |-> tier,
      calls_used |-> calls_used,
      calls_limit |-> calls_limit,
      calls_remaining |-> PostInit(calls_used, calls_limit, calls_remaining),
      given |-> calls_remaining ]

\* the well-formed records of a usage ledger
UsageRecords ==
    { UsageResponse(tier, PyInt(used), PyInt(limit), rem) :
        tier \in {"free", "paid"}, used \in CallCounts, limit \in CallCounts,
        rem \in RemainingArgs }

\* what a get_usage call can hand back in place of a well-formed record:
\* None, a plain dict (no attributes), and records whose counts are None
\* (built with an explicit calls_remaining, so that __post_init__ passes)
MalformedRecords ==
    { [class |-> "NoneType"], [class |-> "dict"] }
        \cup { UsageResponse(tier, None, PyInt(DefaultFreeTierLimit), PyInt(0)) :
                 tier \in {"free", "paid"} }
        \cup { UsageResponse(tier, PyInt(DefaultFreeTierLimit), None, PyInt(0)) :
                 tier \in {"free", "paid"} }

\* the ways a get_usage call ends
GetUsageBehaviours ==
    { [ends |-> "returns", value |-> u] : u \in UsageRecords \cup MalformedRecords }
        \cup { [ends |-> "raises", exc |-> cls] : cls \in ExceptionClasses }

\* the control_plane argument: None, an adapter without get_usage, an
\* adapter with get_usage (adapter objects are truthy)
ControlPlanes ==
    { None, [py |-> "object", has_get_usage |-> FALSE] }
        \cup { [py |-> "object", has_get_usage |-> TRUE, get_usage |-> b] :
                 b \in GetUsageBehaviours }

Tenants == { "", "tenant-a" }

\* the values passed for warning_threshold and free_tier_limit
WarningThresholds == { 0, MaxCalls - 1, DefaultWarningThreshold }
FreeTierLimits == { MaxCalls, DefaultFreeTierLimit }

(***************************************************************************)
(* usage.py: enforce_usage_limit                                           *)
(***************************************************************************)
Return(value) == [how |-> "return", value |-> value]

\* an exception of class cls leaving a call (no attributes of interest)
Raise(cls) == [how |-> "raise", exc |-> cls]

\* usage.py:102, 112  f"/api/upgrade/checkout?tenant={tenant_uuid}"
UpgradeUrl(tenant) == "/api/upgrade/checkout?tenant=" \o tenant

\* usage.py:45-51, 103-107  raise UpgradeRequiredError(message, usage, upgrade_url)
RaiseUpgradeRequired(tenant, usage) ==
    [ how |-> "raise",
      exc |-> "UpgradeRequiredError",
      message |-> << "Free tier limit reached (", usage.calls_limit.v,
                     " calls). Add a payment method to continue." >>,
      usage |-> usage,
      upgrade_url |-> UpgradeUrl(tenant) ]

\* usage.py:14-21  the response the module's usage note has the router return
\* for a caught UpgradeRequiredError e
UpgradeRequiredResponse(e) ==
    [ ok |-> FALSE,
      code |-> "UPGRADE_REQUIRED",
      error |-> e.message,
      upgrade_url |-> e.upgrade_url,
      usage |-> e.usage ]

\* usage.py:111-122  the warning dict
Warning(tenant, usage) ==
    LET calls_remaining == usage.calls_limit.v - usage.calls_used.v
    IN  [ message |-> << "You have ", calls_remaining,
                         " free calls remaining. Add a payment method to continue after ",
                         usage.calls_limit.v, " calls." >>,
          upgrade_url |-> UpgradeUrl(tenant),
          usage |-> [ calls_used |-> usage.calls_used.v,
                      calls_limit |-> usage.calls_limit.v,
                      calls_remaining |-> calls_remaining,
                      tier |-> usage.tier ] ]

\* Python's a >= b on two of the tagged values: a bool, or a TypeError when
\* one of them is None
PyGe(a, b) ==
    IF IsInt(a) /\ IsInt(b)
    THEN (IF a.v >= b.v THEN "True" ELSE "False")
    ELSE "TypeError"

\* Python's `p and q` where p is a bool: q is not evaluated when p is False
PyAnd(p, q) == IF p THEN q ELSE "False"

\* LimitReached with a slip: the limit counts as reached only once it is exceeded
LimitReached_Strict(usage) ==
    PyAnd(usage.tier = "free",
          IF PyGe(usage.calls_used, usage.calls_limit) = "True"
             /\ usage.calls_used.v = usage.calls_limit.v
          THEN "False"
          ELSE PyGe(usage.calls_used, usage.calls_limit))

\* usage.py:100  usage.tier == "free" and usage.calls_used >= usage.calls_limit
LimitReached(usage) ==
    PyAnd(usage.tier = "free", PyGe(usage.calls_used, usage.calls_limit))

\* ApproachingLimit with a slip: the tier is not looked at
ApproachingLimit_AnyTier(usage, threshold) ==
    PyGe(usage.calls_used, PyInt(threshold))

\* usage.py:110  usage.tier == "free" and usage.calls_used >= warning_threshold
ApproachingLimit(usage, threshold) ==
    PyAnd(usage.tier = "free", PyGe(usage.calls_used, PyInt(threshold)))

\* usage.py:87-124  the body of the try statement.  Reading .tier of an object
\* without attributes is an AttributeError, and a comparison or subtraction
\* that meets a None count is a TypeError.
TryBody(tenant, cp, threshold) ==
    LET got == cp.get_usage
    IN  IF got.ends = "raises"
        THEN IF got.exc = "UpgradeRequiredError"
             THEN [ how |-> "raise", exc |-> "UpgradeRequiredError",
                    message |-> << "raised by get_usage" >>,
                    usage |-> None, upgrade_url |-> "" ]
             ELSE Raise(got.exc)
        ELSE LET usage == got.value
             IN  IF usage.class # "UsageResponse"
                 THEN Raise("AttributeError")
                 ELSE IF LimitReached(usage) = "TypeError"
                 THEN Raise("TypeError")
                 ELSE IF LimitReached(usage) = "True"
                 THEN RaiseUpgradeRequired(tenant, usage)
                 ELSE IF ApproachingLimit(usage, threshold) = "TypeError"
                 THEN Raise("TypeError")
                 ELSE IF ApproachingLimit(usage, threshold) = "True"
                 THEN IF IsInt(usage.calls_limit) /\ IsInt(usage.calls_used)
                      THEN Return(Warning(tenant, usage))
                      ELSE Raise("TypeError")
                 ELSE Return(None)

\* Propagates with a slip: no fail-open handler, every exception leaves
Propagates_All(cls) == TRUE

\* usage.py:125-130  which exceptions of the try body leave the function:
\* UpgradeRequiredError is re-raised, any other Exception is swallowed, and
\* what is no Exception is not caught at all
Propagates(cls) ==
    cls = "UpgradeRequiredError" \/ ~IsException(cls)

\* usage.py:80-130  the whole call: how it ends (free_tier_limit, here limit,
\* is never read)
EnforceResult(tenant, cp, limit, threshold) ==
    IF ~TruthyStr(tenant) \/ cp = None
    THEN Return(None)
    ELSE IF ~cp.has_get_usage
    THEN Return(None)
    ELSE LET body == TryBody(tenant, cp, threshold)
         IN  IF body.how = "raise" /\ ~Propagates(body.exc)
             THEN Return(None)
             ELSE body

\* usage.py:129  the print of the fail-open branch
EnforcePrints(tenant, cp, limit, threshold) ==
    /\ TruthyStr(tenant)
    /\ cp # None
    /\ cp.has_get_usage
    /\ LET body == TryBody(tenant, cp, threshold)
       IN  body.how = "raise" /\ ~Propagates(body.exc)

\* usage.py:54-130  enforce_usage_limit(tenant_uuid, action, control_plane,
\* bindings, free_tier_limit, warning_threshold); action and bindings are
\* never read
EnforceUsageLimit ==
    /\ result.how = "pending"
    /\ result' = EnforceResult(tenant_uuid, control_plane, free_tier_limit,
                               warning_threshold)
    /\ printed' = EnforcePrints(tenant_uuid, control_plane, free_tier_limit,
                                warning_threshold)
    /\ UNCHANGED << tenant_uuid, control_plane, free_tier_limit, warning_threshold >>

UsageInit ==
    /\ tenant_uuid \in Tenants
    /\ control_plane \in ControlPlanes
    /\ free_tier_limit \in FreeTierLimits
    /\ warning_threshold \in WarningThresholds
    /\ result = [how |-> "pending"]
    /\ printed = FALSE

\* no enforce_usage_limit call is under way
UsageIdle ==
    /\ tenant_uuid = ""
    /\ control_plane = None
    /\ free_tier_limit = DefaultFreeTierLimit
    /\ warning_threshold = DefaultWarningThreshold
    /\ result = [how |-> "pending"]
    /\ printed = FALSE

(***************************************************************************)
(* router.py: create_manage_router                                         *)
(***************************************************************************)
Callers == 1 .. MaxCallers

\* types.py:9  ManageRequest (action and params are not looked at here) with
\* the tenant of the caller's credential; idempotency_key "" is an absent key
ManageRequests ==
    [ tenant_id : {"tenant-a", "tenant-b"},
      idempotency_key : {"", "key-1"},
      dry_run : BOOLEAN ]

AdapterAnswers == { "allow", "deny" }

\* router.py:9-24  create_manage_router(db_adapter, audit_adapter,
\* idempotency_adapter, rate_limit_adapter, ceilings_adapter, bindings, packs):
\* the body is the raise statement, whatever the arguments are
CreateManageRouterResult == Raise("NotImplementedError")

\* a caller obtains the router function to hand its (request, meta) pair to:
\* create_manage_router(...)(request, meta).  The first call raises, so no
\* router function exists, no adapter is consulted, nothing is dispatched and
\* no audit entry is written.
CreateManageRouter(c) ==
    /\ pc[c] = "calling"
    /\ outcome' = [outcome EXCEPT ![c] = CreateManageRouterResult]
    /\ pc' = [pc EXCEPT ![c] = "done"]
    /\ UNCHANGED << requests, rate_limit_adapter, ceilings_adapter, audit_writes,
                    dispatched >>

RouterInit ==
    /\ requests \in [Callers -> ManageRequests]
    /\ rate_limit_adapter \in [Callers -> AdapterAnswers]
    /\ ceilings_adapter \in [Callers -> AdapterAnswers]
    /\ pc = [c \in Callers |-> "calling"]
    /\ outcome = [c \in Callers |-> [how |-> "pending"]]
    /\ audit_writes = [c \in Callers |-> 0]
    /\ dispatched = [c \in Callers |-> 0]

\* no caller has a request
RouterIdle ==
    /\ requests = [c \in Callers |->
                     [tenant_id |-> "tenant-a", idempotency_key |-> "", dry_run |-> FALSE]]
    /\ rate_limit_adapter = [c \in Callers |-> "allow"]
    /\ ceilings_adapter = [c \in Callers |-> "allow"]
    /\ pc = [c \in Callers |-> "idle"]
    /\ outcome = [c \in Callers |-> [how |-> "pending"]]
    /\ audit_writes = [c \in Callers |-> 0]
    /\ dispatched = [c \in Callers |-> 0]

(***************************************************************************)
(* Specifications.                                                         *)
(***************************************************************************)
\* the usage governor: one enforce_usage_limit call on drawn arguments
Init == UsageInit /\ RouterIdle

Next == EnforceUsageLimit /\ UNCHANGED router_vars

Spec == Init /\ [][Next]_vars

\* the router: every caller hands its request to the entry point
RouterSpecInit == RouterInit /\ UsageIdle

RouterNext == \E c \in Callers : CreateManageRouter(c) /\ UNCHANGED usage_vars

RouterSpec == RouterSpecInit /\ [][RouterNext]_vars

(***************************************************************************)
(* Properties of the router entry point (RouterSpec).                      *)
(***************************************************************************)
\* types.py:12  a ManageResponse that reports a failure with the given code
IsErrorResponse(o, code) ==
    /\ o.how = "return"
    /\ o.value.ok = FALSE
    /\ o.value.code = code

\* C1: create_manage_router returns a router function and every call of it
\* with a (request, meta) pair returns a ManageResponse: no caller's call ends
\* by raising an exception.
C1_EveryCallReturnsResponse ==
    \A c \in Callers : pc[c] = "done" => outcome[c].how = "return"

\* C2: for every request handed to the router the audit adapter's write has
\* been invoked exactly once when the caller has its answer.
C2_AuditWrittenExactlyOnce ==
    \A c \in Callers : pc[c] = "done" => audit_writes[c] = 1

\* two callers whose non-dry-run requests are of the same tenant and carry the
\* same idempotency key
SameKey(c1, c2) ==
    /\ c1 # c2
    /\ requests[c1].idempotency_key # ""
    /\ requests[c1].idempotency_key = requests[c2].idempotency_key
    /\ requests[c1].tenant_id = requests[c2].tenant_id
    /\ ~requests[c1].dry_run
    /\ ~requests[c2].dry_run

\* C3: for two concurrent non-dry-run requests of one tenant with the same
\* idempotency key, once both callers have their answer the action handler
\* has been dispatched exactly once and both answers are the same
\* ManageResponse.
C3_IdempotentReplay ==
    \A c1, c2 \in Callers :
        (SameKey(c1, c2) /\ pc[c1] = "done" /\ pc[c2] = "done")
            => /\ dispatched[c1] + dispatched[c2] = 1
               /\ outcome[c1].how = "return"
               /\ outcome[c2].how = "return"
               /\ outcome[c1].value = outcome[c2].value

\* C4: a request the rate-limit adapter denies is answered ok=false with code
\* RATE_LIMITED, a request the ceilings adapter denies (the rate limit having
\* allowed it) is answered ok=false with code CEILING_EXCEEDED, and in both
\* cases the action handler is never invoked for the request.
C4_DenyBoundary ==
    \A c \in Callers :
        pc[c] = "done" =>
            /\ rate_limit_adapter[c] = "deny"
                 => IsErrorResponse(outcome[c], "RATE_LIMITED") /\ dispatched[c] = 0
            /\ (rate_limit_adapter[c] = "allow" /\ ceilings_adapter[c] = "deny")
                 => IsErrorResponse(outcome[c], "CEILING_EXCEEDED") /\ dispatched[c] = 0

(***************************************************************************)
(* Properties of the usage governor (Spec).                                *)
(***************************************************************************)
Done == result.how # "pending"

\* the control plane has get_usage and the call ends as `ends`
GetUsageEnds(ends) ==
    /\ control_plane # None
    /\ control_plane.has_get_usage
    /\ control_plane.get_usage.ends = ends

\* get_usage returns a UsageResponse whose counts are integers
GotRecord ==
    /\ GetUsageEnds("returns")
    /\ control_plane.get_usage.value \in UsageRecords

\* the record get_usage returns (where GotRecord holds)
Got == control_plane.get_usage.value

\* C5: with a non-empty tenant and a control plane whose get_usage returns a
\* free tier record with calls_used >= calls_limit, the call raises
\* UpgradeRequiredError carrying that record and a non-empty upgrade_url,
\* whatever warning_threshold and free_tier_limit are.
C5_FreeTierLimitBlocks ==
    (/\ Done
     /\ TruthyStr(tenant_uuid)
     /\ GotRecord
     /\ Got.tier = "free"
     /\ Got.calls_used.v >= Got.calls_limit.v)
        => /\ result.how = "raise"
           /\ result.exc = "UpgradeRequiredError"
           /\ result.usage = Got
           /\ result.upgrade_url # ""

C5_Witness ==
    /\ Done
    /\ TruthyStr(tenant_uuid)
    /\ GotRecord
    /\ Got.tier = "free"
    /\ Got.calls_used.v = Got.calls_limit.v
    /\ Got.calls_limit.v = DefaultFreeTierLimit
    /\ warning_threshold # DefaultWarningThreshold
    /\ free_tier_limit # DefaultFreeTierLimit
    /\ result.how = "raise"

\* the margin below the limit that the default thresholds configure: the
\* warning starts at 90 calls when the limit is 100, the last 10 calls
DefaultMargin == DefaultFreeTierLimit - DefaultWarningThreshold

IsWarning(r) == r.how = "return" /\ r.value # None

UsageUnavailable ==
    \/ control_plane = None
    \/ ~control_plane.has_get_usage
    \/ GetUsageEnds("raises")
    \/ /\ GetUsageEnds("returns")
       /\ control_plane.get_usage.value \in MalformedRecords

ClosedErrorCodes ==
    { "VALIDATION_ERROR", "INVALID_API_KEY", "SCOPE_DENIED", "NOT_FOUND",
      "RATE_LIMITED", "CEILING_EXCEEDED", "IDEMPOTENT_REPLAY", "UPGRADE_REQUIRED",
      "INTERNAL_ERROR" }

\* C8: ERROR_CODES is exactly the closed set of nine codes, so the code of
\* the response that reports a usage block is a member of ERROR_CODES.
C8_ErrorCodesClosed ==
    (Done /\ result.how = "raise" /\ result.exc = "UpgradeRequiredError")
        => /\ UpgradeRequiredResponse(result).code
                 \in { ERROR_CODES[i] : i \in DOMAIN ERROR_CODES }
           /\ { ERROR_CODES[i] : i \in DOMAIN ERROR_CODES } = ClosedErrorCodes

C10_PaidNeverLimited ==
    (/\ Done
     /\ GetUsageEnds("returns")
     /\ control_plane.get_usage.value.class = "UsageResponse"
     /\ control_plane.get_usage.value.tier = "paid")
        => result = Return(None)

C10_Witness ==
    /\ Done
    /\ TruthyStr(tenant_uuid)
    /\ GotRecord
    /\ Got.tier = "paid"
    /\ Got.calls_used.v > Got.calls_limit.v
    /\ Got.calls_used.v >= warning_threshold
    /\ result = Return(None)

====
